---- MODULE Spec2Model ----
(***************************************************************************)
(* Model of the two Celery tasks of openrelik-worker-dfindexeddb:          *)
(*   src/src/indexeddb.py  command()  (tool dfindexeddb, staged copies)    *)
(*   src/src/leveldb.py    command()  (tool dfleveldb, files in place)     *)
(* with the tables of src/src/definitions.py.                              *)
(*                                                                         *)
(* One behaviour is one task invocation.  Text that the code inspects      *)
(* (display names, output formats, the output path) is a tuple of          *)
(* one-character strings, so that re.search, str.lower and os.path.join    *)
(* are computed character by character; ToStr turns such a tuple into an   *)
(* ordinary string.  Time is counted in seconds: time.sleep(2) takes two   *)
(* Tick steps, poll() and send_event() take none.                          *)
(***************************************************************************)
EXTENDS Integers, Sequences, FiniteSets, TLC

\* ------------------------------------------------------------------ bounds
MaxFiles == 2
MaxDuration == 4

\* ------------------------------------------------------------- text helpers
RECURSIVE ToStr(_)
ToStr(s) == IF s = <<>> THEN "" ELSE Head(s) \o ToStr(Tail(s))

LowerChar(c) ==
  CASE c = "A" -> "a" [] c = "B" -> "b" [] c = "C" -> "c" [] c = "D" -> "d"
    [] c = "E" -> "e" [] c = "F" -> "f" [] c = "G" -> "g" [] c = "H" -> "h"
    [] c = "I" -> "i" [] c = "J" -> "j" [] c = "K" -> "k" [] c = "L" -> "l"
    [] c = "M" -> "m" [] c = "N" -> "n" [] c = "O" -> "o" [] c = "P" -> "p"
    [] c = "Q" -> "q" [] c = "R" -> "r" [] c = "S" -> "s" [] c = "T" -> "t"
    [] c = "U" -> "u" [] c = "V" -> "v" [] c = "W" -> "w" [] c = "X" -> "x"
    [] c = "Y" -> "y" [] c = "Z" -> "z" [] OTHER -> c

\* str.lower()
Lower(s) == [k \in 1..Len(s) |-> LowerChar(s[k])]

\* os.path.join(a, b) for two components
PathJoin(a, b) ==
  IF b # <<>> /\ b[1] = "/" THEN b
  ELSE IF a = <<>> \/ a[Len(a)] = "/" THEN a \o b
  ELSE a \o <<"/">> \o b

\* ---------------------------------------------------------- regular expressions
\* A pattern is [bol, atoms, eol]: an optional ^, a sequence of single-character
\* atoms, an optional $.  Atoms: a literal, [0-9], or the unescaped dot.
Lit(s) == [k \in 1..Len(s) |-> [k |-> "lit", c |-> s[k]]]
Digits(n) == [k \in 1..n |-> [k |-> "digit", c |-> ""]]
AnyChar == <<[k |-> "any", c |-> ""]>>

DigitChars == {"0", "1", "2", "3", "4", "5", "6", "7", "8", "9"}

AtomMatches(a, ch) ==
  CASE a.k = "lit" -> ch = a.c
    [] a.k = "digit" -> ch \in DigitChars
    [] OTHER -> ch # "\n"

\* does the pattern match s starting at position k
MatchAt(p, s, k) ==
  LET n == Len(p.atoms)
      last == k + n - 1
  IN /\ last <= Len(s)
     /\ p.bol => k = 1
     /\ p.eol => \/ last = Len(s)
                 \/ last = Len(s) - 1 /\ s[Len(s)] = "\n"
     /\ \A j \in 1..n : AtomMatches(p.atoms[j], s[k + j - 1])

\* re.search(p, s) is not None
re_search(p, s) == \E k \in 1..(Len(s) + 1) : MatchAt(p, s, k)

\* ------------------------------------------------------------ definitions.py
STDERR_FILE_DATA_TYPE == "plain/txt"

LEVELDB_RECORD_TYPES ==
  [log |-> <<"blocks", "physical_records", "write_batches", "parsed_internal_key">>,
   ldb |-> <<"blocks", "records">>,
   descriptor |-> <<"blocks", "physical_records", "versionedit">>]

\* dict order of LEVELDB_FILE_REGEX: descriptor, ldb, log
LEVELDB_FILE_REGEX ==
  << [kind |-> "descriptor",
      re |-> [bol |-> TRUE,
              atoms |-> Lit(<<"M","A","N","I","F","E","S","T","-">>) \o Digits(6),
              eol |-> TRUE]],
     [kind |-> "ldb",
      re |-> [bol |-> FALSE,
              atoms |-> Digits(6) \o Lit(<<".","l","d","b">>),
              eol |-> TRUE]],
     [kind |-> "log",
      re |-> [bol |-> FALSE,
              atoms |-> Digits(6) \o Lit(<<".","l","o","g">>),
              eol |-> TRUE]] >>

\* dict order of CHROMIUM_FILE_REGEX: ldb, log
CHROMIUM_FILE_REGEX ==
  << [kind |-> "ldb",
      re |-> [bol |-> FALSE,
              atoms |-> Digits(6) \o Lit(<<".","l","d","b">>),
              eol |-> TRUE]],
     [kind |-> "log",
      re |-> [bol |-> FALSE,
              atoms |-> Digits(6) \o Lit(<<".","l","o","g">>),
              eol |-> TRUE]] >>

\* r"^IndexedDB.sqlite3$": the dot is not escaped
SAFARI_FILE_REGEX ==
  [bol |-> TRUE,
   atoms |-> Lit(<<"I","n","d","e","x","e","d","D","B">>) \o AnyChar
             \o Lit(<<"s","q","l","i","t","e","3">>),
   eol |-> TRUE]

\* r"\.sqlite$"
FIREFOX_FILE_REGEX ==
  [bol |-> FALSE, atoms |-> Lit(<<".","s","q","l","i","t","e">>), eol |-> TRUE]

OUTPUT_TYPES_EXTENSIONS ==
  [json |-> [extension |-> ".json", mime |-> "application/json"],
   jsonl |-> [extension |-> ".jsonl", mime |-> "application/jsonl"],
   repr |-> [extension |-> ".txt", mime |-> "text/plain"]]

INTERVAL_SECONDS == 2


\* ------------------------------------------------------------------ inputs
\* display names offered to the tasks
NameLdb == <<"0","0","0","0","0","5",".","l","d","b">>
NameLog == <<"0","0","0","0","0","3",".","l","o","g">>
NameManifest == <<"M","A","N","I","F","E","S","T","-","0","0","0","0","0","1">>
NameFirefox == <<"f","a","k","e","_","f","i","r","e","f","o","x",".","s","q","l","i","t","e">>
NameSafari == <<"I","n","d","e","x","e","d","D","B",".","s","q","l","i","t","e","3">>
NameOther == <<"n","o","t","e","s",".","t","x","t">>

DisplayNames == {NameLdb, NameLog, NameManifest, NameFirefox, NameSafari, NameOther}

DigitStr == <<"1", "2", "3", "4", "5", "6", "7", "8", "9">>

\* the k-th input file dictionary of a batch: id and path are its own, the
\* display name is the user-facing one
InputFile(k, name) ==
  [id |-> k, display_name |-> name, path |-> "/evidence/" \o DigitStr[k]]

Batches ==
  UNION { { [k \in 1..n |-> InputFile(k, names[k])] : names \in [1..n -> DisplayNames] }
          : n \in 0..MaxFiles }

FormatJSON == <<"J","S","O","N">>
FormatJSONL == <<"J","S","O","N","L">>
FormatREPR == <<"R","E","P","R">>

\* TASK_METADATA "items" of output_format (both tasks)
OutputFormatItems == {FormatJSON, FormatJSONL, FormatREPR}
\* TASK_METADATA "items" of browser_type
BrowserTypeItems == {"chromium", "firefox", "safari"}
\* TASK_METADATA "items" of record_type: the union of the three lists
RecordTypeItems ==
  UNION { {LEVELDB_RECORD_TYPES[k][j] : j \in 1..Len(LEVELDB_RECORD_TYPES[k])}
          : k \in {"descriptor", "ldb", "log"} }

\* task_config is None, or a dict.  A dict is a function on the keys present.
EmptyDict == [key \in {} |-> <<>>]
NoneConfig == [isNone |-> TRUE, d |-> EmptyDict]
Dict(d) == [isNone |-> FALSE, d |-> d]

\* Configurations: none, the empty dict, and the dicts the web form produces:
\* output_format always chosen, the second field chosen or left out.
Configs(t) ==
  {NoneConfig, Dict(EmptyDict)}
  \cup { Dict([key \in {"output_format"} |-> f]) : f \in OutputFormatItems }
  \cup IF t = "indexeddb"
       THEN { Dict([output_format |-> f, browser_type |-> b])
              : f \in OutputFormatItems, b \in BrowserTypeItems }
       ELSE { Dict([output_format |-> f, record_type |-> r])
              : f \in OutputFormatItems, r \in RecordTypeItems }

OutputPaths == { <<"/","o","u","t">> }
\* values of uuid.uuid4().hex
Tokens == { <<"5","f","0","c">> }

\* ------------------------------------------------------------------- state
VARIABLES
  task,              \* which command() runs: "indexeddb" or "leveldb"
  task_config,       \* argument task_config
  input_files,       \* argument input_files, after get_input_files
  output_path,       \* argument output_path
  pc,                \* position in command()
  i,                 \* index of the current element of the running for loop
  temp_dir,          \* indexeddb: the staging directory path, <<>> before mkdir
  dirs,              \* directories of the staging area that exist
  staged,            \* staged files: set of <<path, id of the file copied there>>
  input_files_temp,  \* indexeddb: list of (input_file, temp_file)
  output_files,      \* list of artifact dictionaries
  created,           \* number of output files made by create_output_file
  popen_calls,       \* every call of subprocess.Popen, in order: the loop
                     \* index it was made at, its argument vector, its sinks
  stdout_file,       \* the stdout artifact of the current iteration
  stderr_file,       \* the stderr artifact of the current iteration
  process,           \* the Popen object started last, with the running time
                     \* and the life span of its child while it supervises it
  sleep_left,        \* seconds left of the current time.sleep
  events,            \* task-progress events sent in the current poll loop
  status,            \* Celery state of the task
  error              \* message of the exception that ended the task, or ""

vars == <<task, task_config, input_files, output_path, pc, i, temp_dir, dirs,
          staged, input_files_temp, output_files, created, popen_calls,
          stdout_file, stderr_file, process, sleep_left, events, status, error>>

NoProcess == [state |-> "none", elapsed |-> 0, duration |-> 0, returncode |-> 0]

\* dict.get(key, default)
Get(d, key, default) == IF key \in DOMAIN d THEN d[key] ELSE default

\* `x in list`
InList(x, l) == \E k \in 1..Len(l) : l[k] = x

\* variant of ConfigMissing: `task_config is None`
ConfigMissing_NoneOnly(cfg) == cfg.isNone

\* `not task_config`
ConfigMissing(cfg) == cfg.isNone \/ DOMAIN cfg.d = {}

\* The exception raised while parsing the configuration, or "" when it parses:
\* indexeddb calls [].lower() when output_format is absent, leveldb looks up "".
ConfigError(t, cfg) ==
  IF "output_format" \notin DOMAIN cfg.d
  THEN IF t = "indexeddb" THEN "AttributeError" ELSE "KeyError"
  ELSE IF ToStr(Lower(cfg.d["output_format"])) \notin DOMAIN OUTPUT_TYPES_EXTENSIONS
       THEN "KeyError" ELSE ""

\* locals of command() after "parse task configuration"
output_format == ToStr(Lower(Get(task_config.d, "output_format", <<>>)))
output_extension == OUTPUT_TYPES_EXTENSIONS[output_format].extension
browser_type == Get(task_config.d, "browser_type", "")
record_type == Get(task_config.d, "record_type", "")
base_command == IF task = "indexeddb" THEN "dfindexeddb" ELSE "dfleveldb"


\* ------------------------------------------------------------ classification
\* `for kind, regex in table.items(): if re.search(regex, name): break`:
\* the first kind, in dict order, whose pattern matches; "" is the else branch
FirstMatch(table, name) ==
  LET hits == {k \in 1..Len(table) : re_search(table[k].re, name)}
  IN IF hits = {} THEN ""
     ELSE table[CHOOSE k \in hits : \A j \in hits : k <= j].kind

\* The searches of the two tasks, evaluated once for every display name
ChromiumKind == [n \in DisplayNames |-> FirstMatch(CHROMIUM_FILE_REGEX, n)]
LevelDBKind == [n \in DisplayNames |-> FirstMatch(LEVELDB_FILE_REGEX, n)]
FirefoxMatch == [n \in DisplayNames |-> re_search(FIREFOX_FILE_REGEX, n)]
SafariMatch == [n \in DisplayNames |-> re_search(SAFARI_FILE_REGEX, n)]

\* indexeddb.py: the subcommand chosen for a display name, "" when the file is
\* reported as unsupported
IndexedDBSubcommand(bt, name) ==
  IF bt = "chromium" THEN ChromiumKind[name]
  ELSE IF bt = "firefox" /\ FirefoxMatch[name] THEN "db"
  ELSE IF bt = "safari" /\ SafariMatch[name] THEN "db"
  ELSE ""

\* leveldb.py: the file kind matched by the display name, "" when none
LevelDBSubcommand(name) == LevelDBKind[name]

\* variant of RecordTypeAllowed: the record type is looked up in the lists of
\* all kinds instead of the list of the matched kind
RecordTypeAllowed_AnyKind(rt, kind) ==
  \E k \in {"descriptor", "ldb", "log"} : InList(rt, LEVELDB_RECORD_TYPES[k])

\* leveldb.py: `record_type not in LEVELDB_RECORD_TYPES[subcommand]` is false
RecordTypeAllowed(rt, kind) == InList(rt, LEVELDB_RECORD_TYPES[kind])

\* the subcommand of an input file under the running task's configuration
Subcommand(f) ==
  IF task = "indexeddb" THEN IndexedDBSubcommand(browser_type, f.display_name)
  ELSE LevelDBSubcommand(f.display_name)

\* the file reaches create_output_file (no `continue` is taken)
Supported(f) ==
  /\ Subcommand(f) # ""
  /\ task = "leveldb" => RecordTypeAllowed(record_type, Subcommand(f))

\* ------------------------------------------------------------ command builder
\* variant of IndexedDBCommandParts: "--format" appended for every subcommand
IndexedDBCommandParts_AlwaysFormat(subcommand, temp_file, fmt, bt) ==
  <<"dfindexeddb", subcommand, "-s", temp_file, "-o", fmt, "--format", bt>>

\* indexeddb.py command_parts
IndexedDBCommandParts(subcommand, temp_file, fmt, bt) ==
  <<"dfindexeddb", subcommand, "-s", temp_file, "-o", fmt>>
  \o IF subcommand = "db" THEN <<"--format", bt>> ELSE <<>>

\* variant of LevelDBCommandParts: the record type pair is left out
LevelDBCommandParts_NoRecordType(subcommand, original_path, rt, fmt) ==
  <<"dfleveldb", subcommand, "-s", original_path, "-o", fmt>>

\* leveldb.py command_parts
LevelDBCommandParts(subcommand, original_path, rt, fmt) ==
  <<"dfleveldb", subcommand, "-s", original_path, "-t", rt, "-o", fmt>>

\* f"{temp_dir}/{display_name}"
TempFile(dir, name) == dir \o <<"/">> \o name

\* the k-th element of the list the main loop iterates
LoopItem(k) ==
  IF task = "indexeddb" THEN input_files_temp[k].input_file ELSE input_files[k]

\* the temp_file paired with the k-th input file in input_files_temp
TempFileOf(k) == input_files_temp[k].temp_file

CommandParts(k) ==
  LET f == LoopItem(k)
  IN IF task = "indexeddb"
     THEN IndexedDBCommandParts(Subcommand(f), ToStr(TempFileOf(k)),
                                output_format, browser_type)
     ELSE LevelDBCommandParts(Subcommand(f), f.path, record_type, output_format)

\* ----------------------------------------------------------- result collector
\* the two create_output_file calls of one iteration; uuid stands for the
\* file the library creates under output_base_path
StdoutFile(f, n) ==
  IF task = "indexeddb"
  THEN [uuid |-> n,
        display_name |-> ToStr(f.display_name) \o "." \o browser_type,
        extension |-> output_extension,
        data_type |-> "openrelik:dfindexeddb:" \o browser_type \o ":" \o output_format,
        original_path |-> f.path,
        source_file_id |-> f.id]
  ELSE [uuid |-> n,
        display_name |-> ToStr(f.display_name),
        extension |-> output_extension,
        data_type |-> "openrelik:dfleveldb:" \o record_type \o ":" \o output_format,
        original_path |-> f.path,
        source_file_id |-> f.id]

StderrFile(f, n) ==
  [uuid |-> n,
   display_name |-> ToStr(f.display_name),
   extension |-> output_extension \o ".error.txt",
   data_type |-> STDERR_FILE_DATA_TYPE,
   original_path |-> f.path,
   source_file_id |-> f.id]

\* variant of Collected: the stderr artifact is appended first
Collected_Swapped(out, so, se) ==
  Append(Append(out, se), so)

\* output_files after the two appends that end an iteration
Collected(out, so, se) ==
  Append(Append(out, so), se)

\* variant of FinalError: the empty-result check is missing
FinalError_NoCheck(out) == ""

\* the end of command(): the exception message, "" when the result is returned
FinalError(out) == IF out = <<>> THEN "No supported files" ELSE ""


\* ------------------------------------------------------------------ actions
NoFile ==
  [uuid |-> 0, display_name |-> "", extension |-> "", data_type |-> "",
   original_path |-> "", source_file_id |-> 0]

Init ==
  /\ task \in {"indexeddb", "leveldb"}
  /\ task_config \in Configs(task)
  /\ input_files \in Batches
  /\ output_path \in OutputPaths
  /\ pc = "start"
  /\ i = 1
  /\ temp_dir = <<>>
  /\ dirs = {}
  /\ staged = {}
  /\ input_files_temp = <<>>
  /\ output_files = <<>>
  /\ created = 0
  /\ popen_calls = <<>>
  /\ stdout_file = NoFile
  /\ stderr_file = NoFile
  /\ process = NoProcess
  /\ sleep_left = 0
  /\ events = 0
  /\ status = "PENDING"
  /\ error = ""

\* `if not task_config: return create_task_result(output_files=[] ...)`
ReturnNoConfig ==
  /\ pc = "start"
  /\ ConfigMissing(task_config)
  /\ pc' = "done"
  /\ status' = "SUCCESS"
  /\ UNCHANGED <<task, task_config, input_files, output_path, i, temp_dir, dirs,
                 staged, input_files_temp, output_files, created, popen_calls,
                 stdout_file, stderr_file, process, sleep_left, events, error>>

\* "parse task configuration", and for indexeddb uuid4 + os.mkdir
ParseConfig ==
  /\ pc = "start"
  /\ ~ConfigMissing(task_config)
  /\ IF ConfigError(task, task_config) # ""
     THEN /\ pc' = "done"
          /\ status' = "FAILURE"
          /\ error' = ConfigError(task, task_config)
          /\ UNCHANGED <<temp_dir, dirs>>
     ELSE /\ IF task = "indexeddb"
             THEN /\ \E tok \in Tokens : temp_dir' = PathJoin(output_path, tok)
                  /\ dirs' = dirs \cup {temp_dir'}
                  /\ pc' = IF Len(input_files) = 0 THEN "loop" ELSE "copy"
             ELSE /\ pc' = "loop"
                  /\ UNCHANGED <<temp_dir, dirs>>
          /\ UNCHANGED <<status, error>>
  /\ UNCHANGED <<task, task_config, input_files, output_path, i, staged,
                 input_files_temp, output_files, created, popen_calls,
                 stdout_file, stderr_file, process, sleep_left, events>>

\* one iteration of the staging loop: shutil.copy(path, temp_file) replaces
\* whatever is at temp_file
CopyFile ==
  /\ pc = "copy"
  /\ LET f == input_files[i]
         temp_file == TempFile(temp_dir, f.display_name)
     IN /\ staged' = {e \in staged : e[1] # temp_file} \cup {<<temp_file, f.id>>}
        /\ input_files_temp' =
             Append(input_files_temp, [input_file |-> f, temp_file |-> temp_file])
  /\ IF i = Len(input_files)
     THEN pc' = "loop" /\ i' = 1
     ELSE pc' = "copy" /\ i' = i + 1
  /\ UNCHANGED <<task, task_config, input_files, output_path, temp_dir, dirs,
                 output_files, created, popen_calls, stdout_file, stderr_file,
                 process, sleep_left, events, status, error>>

\* shutil.copy raises (unreadable source, full disk): the exception leaves
\* command()
CopyFails ==
  /\ pc = "copy"
  /\ pc' = "done"
  /\ status' = "FAILURE"
  /\ error' = "copy failed"
  /\ UNCHANGED <<task, task_config, input_files, output_path, i, temp_dir, dirs,
                 staged, input_files_temp, output_files, created, popen_calls,
                 stdout_file, stderr_file, process, sleep_left, events>>

\* variant of SkipUnsupported: `break` in place of `continue`
SkipUnsupported_Break ==
  /\ pc = "loop"
  /\ i <= Len(input_files)
  /\ ~Supported(LoopItem(i))
  /\ i' = Len(input_files) + 1
  /\ UNCHANGED <<task, task_config, input_files, output_path, pc, temp_dir, dirs,
                 staged, input_files_temp, output_files, created, popen_calls,
                 stdout_file, stderr_file, process, sleep_left, events, status,
                 error>>

\* the `continue` branches of the main loop
SkipUnsupported ==
  /\ pc = "loop"
  /\ i <= Len(input_files)
  /\ ~Supported(LoopItem(i))
  /\ i' = i + 1
  /\ UNCHANGED <<task, task_config, input_files, output_path, pc, temp_dir, dirs,
                 staged, input_files_temp, output_files, created, popen_calls,
                 stdout_file, stderr_file, process, sleep_left, events, status,
                 error>>

\* a supported file: both create_output_file calls, command_parts, open() of
\* the two sinks and subprocess.Popen, which returns a running child
Launch ==
  /\ pc = "loop"
  /\ i <= Len(input_files)
  /\ Supported(LoopItem(i))
  /\ stdout_file' = StdoutFile(LoopItem(i), created + 1)
  /\ stderr_file' = StderrFile(LoopItem(i), created + 2)
  /\ created' = created + 2
  /\ popen_calls' = Append(popen_calls,
       [item |-> i, args |-> CommandParts(i), stdout |-> created + 1,
        stderr |-> created + 2])
  /\ \E d \in 0..MaxDuration :
       process' = [state |-> "running", elapsed |-> 0, duration |-> d, returncode |-> 0]
  /\ events' = 0
  /\ sleep_left' = 0
  /\ pc' = "poll"
  /\ UNCHANGED <<task, task_config, input_files, output_path, i, temp_dir, dirs,
                 staged, input_files_temp, output_files, status, error>>

\* create_output_file or open() raises: the exception leaves command()
CreateOutputFileFails ==
  /\ pc = "loop"
  /\ i <= Len(input_files)
  /\ Supported(LoopItem(i))
  /\ pc' = "done"
  /\ status' = "FAILURE"
  /\ error' = "create_output_file failed"
  /\ UNCHANGED <<task, task_config, input_files, output_path, i, temp_dir, dirs,
                 staged, input_files_temp, output_files, created, popen_calls,
                 stdout_file, stderr_file, process, sleep_left, events>>

\* subprocess.Popen raises (missing binary, permission denied): nothing
\* catches it, the exception leaves command()
PopenFails ==
  /\ pc = "loop"
  /\ i <= Len(input_files)
  /\ Supported(LoopItem(i))
  /\ stdout_file' = StdoutFile(LoopItem(i), created + 1)
  /\ stderr_file' = StderrFile(LoopItem(i), created + 2)
  /\ created' = created + 2
  /\ popen_calls' = Append(popen_calls,
       [item |-> i, args |-> CommandParts(i), stdout |-> created + 1,
        stderr |-> created + 2])
  /\ pc' = "done"
  /\ status' = "FAILURE"
  /\ error' = "Popen failed"
  /\ UNCHANGED <<task, task_config, input_files, output_path, i, temp_dir, dirs,
                 staged, input_files_temp, output_files, process, sleep_left,
                 events>>

\* variant of PollAlive: the loop sleeps one second
PollAlive_ShortSleep ==
  /\ pc = "poll"
  /\ sleep_left = 0
  /\ process.state = "running"
  /\ events' = events + 1
  /\ sleep_left' = 1
  /\ UNCHANGED <<task, task_config, input_files, output_path, pc, i, temp_dir,
                 dirs, staged, input_files_temp, output_files, created,
                 popen_calls, stdout_file, stderr_file, process, status, error>>

\* `while process.poll() is None: send_event("task-progress"); time.sleep(2)`,
\* the case where poll() returns None
PollAlive ==
  /\ pc = "poll"
  /\ sleep_left = 0
  /\ process.state = "running"
  /\ events' = events + 1
  /\ sleep_left' = INTERVAL_SECONDS
  /\ UNCHANGED <<task, task_config, input_files, output_path, pc, i, temp_dir,
                 dirs, staged, input_files_temp, output_files, created,
                 popen_calls, stdout_file, stderr_file, process, status, error>>

\* poll() returns the exit status: the while loop and the with block end and
\* both artifacts are appended.  The child is gone: only the Popen object with
\* its returncode stays, and the event count starts over.
PollExited ==
  /\ pc = "poll"
  /\ sleep_left = 0
  /\ process.state = "exited"
  /\ output_files' = Collected(output_files, stdout_file, stderr_file)
  /\ i' = i + 1
  /\ pc' = "loop"
  /\ process' = [process EXCEPT !.elapsed = 0, !.duration = 0]
  /\ events' = 0
  /\ UNCHANGED <<task, task_config, input_files, output_path, temp_dir, dirs,
                 staged, input_files_temp, created, popen_calls, stdout_file,
                 stderr_file, sleep_left, status, error>>

\* one second passes while the task sleeps; the child cannot outlive its
\* duration
Tick ==
  /\ pc = "poll"
  /\ sleep_left > 0
  /\ process.state = "running" => process.elapsed < process.duration
  /\ sleep_left' = sleep_left - 1
  /\ process' = IF process.state = "running"
                THEN [process EXCEPT !.elapsed = @ + 1]
                ELSE process
  /\ UNCHANGED <<task, task_config, input_files, output_path, pc, i, temp_dir,
                 dirs, staged, input_files_temp, output_files, created,
                 popen_calls, stdout_file, stderr_file, events, status, error>>

\* the child process ends, with any exit status
ChildExit ==
  /\ pc = "poll"
  /\ process.state = "running"
  /\ process.elapsed = process.duration
  /\ \E rc \in {0, 1} :
       process' = [process EXCEPT !.state = "exited", !.returncode = rc]
  /\ UNCHANGED <<task, task_config, input_files, output_path, pc, i, temp_dir,
                 dirs, staged, input_files_temp, output_files, created,
                 popen_calls, stdout_file, stderr_file, sleep_left, events,
                 status, error>>

\* after the main loop: "Remove temp directory" (indexeddb), then either
\* RuntimeError("No supported files") or the task result
Finish ==
  /\ pc = "loop"
  /\ i > Len(input_files)
  /\ IF task = "indexeddb" /\ temp_dir \in dirs
     THEN /\ dirs' = dirs \ {temp_dir}
          /\ staged' = {}
     ELSE UNCHANGED <<dirs, staged>>
  /\ error' = FinalError(output_files)
  /\ status' = IF error' = "" THEN "SUCCESS" ELSE "FAILURE"
  /\ pc' = "done"
  /\ UNCHANGED <<task, task_config, input_files, output_path, i, temp_dir,
                 input_files_temp, output_files, created, popen_calls,
                 stdout_file, stderr_file, process, sleep_left, events>>

Next ==
  \/ ReturnNoConfig
  \/ ParseConfig
  \/ CopyFile
  \/ CopyFails
  \/ SkipUnsupported
  \/ Launch
  \/ CreateOutputFileFails
  \/ PopenFails
  \/ PollAlive
  \/ PollExited
  \/ Tick
  \/ ChildExit
  \/ Finish

Spec == Init /\ [][Next]_vars

TypeOK ==
  /\ pc \in {"start", "copy", "loop", "poll", "done"}
  /\ status \in {"PENDING", "SUCCESS", "FAILURE"}
  /\ i \in 1..(Len(input_files) + 1)
  /\ sleep_left \in 0..INTERVAL_SECONDS
  /\ Len(output_files) <= 2 * Len(input_files)


\* =================================================================== claims
\* Vocabulary of the claims, stated on the inputs and the pattern tables only.

\* a non-empty task configuration was supplied
ConfigGiven == ~task_config.isNone /\ task_config.d # EmptyDict

\* the display names that match some pattern of a table
NamesMatching(table) ==
  {n \in DisplayNames : \E k \in 1..Len(table) : re_search(table[k].re, n)}

\* the display names matched to the k-th kind of a table: the first pattern,
\* in the table's order, that matches
NamesOfKind(table, k) ==
  {n \in DisplayNames : /\ re_search(table[k].re, n)
                        /\ \A j \in 1..(k - 1) : ~re_search(table[j].re, n)}

ChromiumNames == NamesMatching(CHROMIUM_FILE_REGEX)
FirefoxNames == {n \in DisplayNames : re_search(FIREFOX_FILE_REGEX, n)}
SafariNames == {n \in DisplayNames : re_search(SAFARI_FILE_REGEX, n)}
LevelDBNames == NamesMatching(LEVELDB_FILE_REGEX)
DescriptorNames == NamesOfKind(LEVELDB_FILE_REGEX, 1)
LdbNames == NamesOfKind(LEVELDB_FILE_REGEX, 2)
LogNames == NamesOfKind(LEVELDB_FILE_REGEX, 3)

\* the file kind a display name of LevelDBNames is matched to
KindOf(name) ==
  IF name \in DescriptorNames THEN "descriptor"
  ELSE IF name \in LdbNames THEN "ldb"
  ELSE "log"

\* the input file is supported under the configuration supplied
IsSupportedFile(f) ==
  IF task = "indexeddb"
  THEN \/ browser_type = "chromium" /\ f.display_name \in ChromiumNames
       \/ browser_type = "firefox" /\ f.display_name \in FirefoxNames
       \/ browser_type = "safari" /\ f.display_name \in SafariNames
  ELSE /\ f.display_name \in LevelDBNames
       /\ LET l == LEVELDB_RECORD_TYPES[KindOf(f.display_name)]
          IN \E j \in 1..Len(l) : l[j] = record_type

\* the output format of the configuration, lower-cased
LowerCasedFormat ==
  LET fmt == task_config.d["output_format"]
  IN CASE fmt = FormatJSON -> "json"
       [] fmt = FormatJSONL -> "jsonl"
       [] fmt = FormatREPR -> "repr"

C2_IndexedDBArgv ==
  task = "indexeddb" =>
    \A c \in 1..Len(popen_calls) :
      LET call == popen_calls[c]
          f == input_files[call.item]
          sub == call.args[2]
          base == <<"dfindexeddb", sub, "-s", call.args[4], "-o", LowerCasedFormat>>
      IN /\ \E tok \in Tokens :
              call.args[4] = ToStr(output_path) \o "/" \o ToStr(tok)
                               \o "/" \o ToStr(f.display_name)
         /\ sub = "db" <=> browser_type \in {"firefox", "safari"}
         /\ sub \in {"ldb", "log"} <=> browser_type = "chromium"
         /\ call.args = IF sub = "db"
                        THEN base \o <<"--format", browser_type>>
                        ELSE base
         /\ call.args[4] # f.path
         /\ temp_dir \in dirs => \E e \in staged : ToStr(e[1]) = call.args[4]

C2_Witness ==
  /\ task = "indexeddb"
  /\ Len(popen_calls) = 1
  /\ popen_calls[1].args =
       <<"dfindexeddb", "db", "-s", "/out/5f0c/fake_firefox.sqlite",
         "-o", "jsonl", "--format", "firefox">>

\* ------------------------------------------------------------------------ C3
\* C3: every Popen call of the leveldb task has the argument vector
\* ["dfleveldb", <matched kind>, "-s", <original path>, "-t", <record type>,
\*  "-o", <lower-cased format>]; the task never creates a staging directory
\* and never copies an input.
C3_LevelDBArgv ==
  task = "leveldb" =>
    /\ dirs = {} /\ staged = {} /\ temp_dir = <<>> /\ input_files_temp = <<>>
    /\ \A c \in 1..Len(popen_calls) :
         LET call == popen_calls[c]
             f == input_files[call.item]
         IN call.args =
              <<"dfleveldb", KindOf(f.display_name),
                "-s", f.path, "-t", task_config.d["record_type"],
                "-o", LowerCasedFormat>>

C3_Witness ==
  /\ task = "leveldb"
  /\ Len(popen_calls) = 1
  /\ input_files[1].display_name = NameLdb
  /\ popen_calls[1].args =
       <<"dfleveldb", "ldb", "-s", "/evidence/1", "-t", "blocks", "-o", "json">>


\* ------------------------------------------------------------------------ C4
\* C4: whenever the indexeddb task has completed, with a result or with a
\* failure, the staging directory of the invocation no longer exists.
C4_StagingRemoved ==
  (task = "indexeddb" /\ pc = "done") => dirs = {}

\* ------------------------------------------------------------------------ C5
\* C5: when subprocess.Popen raises for one file, the failure is confined to
\* that file: when the task ends Popen has been tried for every supported
\* file of the batch, and the task has failed only if no file produced
\* artifacts.
PopenRaised == error = "Popen failed"

C5_LaunchFailureConfined ==
  (pc = "done" /\ PopenRaised) =>
     /\ \A k \in 1..Len(input_files) :
          IsSupportedFile(input_files[k]) =>
             \E c \in 1..Len(popen_calls) : popen_calls[c].item = k
     /\ status = "FAILURE" => output_files = <<>>

\* ------------------------------------------------------------------------ C6
\* C6: an unsupported file causes no Popen call and no artifact and never
\* stops the batch.  Popen is called once for each supported file, in input
\* order, and never for an unsupported one; the task fails with "No supported
\* files" only when every file of the batch is unsupported.
LaunchedItems == [c \in 1..Len(popen_calls) |-> popen_calls[c].item]

SupportedItems == {k \in 1..Len(input_files) : IsSupportedFile(input_files[k])}

\* the main loop ran to its end: the task returned or raised the final error
LoopCompleted ==
  pc = "done" /\ ConfigGiven /\ error \in {"", "No supported files"}

C7_CountInBounds ==
  process.state = "exited" =>
     /\ events >= process.duration \div INTERVAL_SECONDS
     /\ events <= (process.duration \div INTERVAL_SECONDS) + 1
     /\ process.duration > INTERVAL_SECONDS => events > 0

C7_Heartbeat ==
  /\ []C7_CountInBounds
  /\ [][events' > events => process.state = "running" /\ process'.state = "running"]_vars

C7_Witness ==
  /\ process.state = "exited"
  /\ process.duration = 3
  /\ events = 2
  /\ pc = "poll"

\* ------------------------------------------------------------------------ C8
\* C8: in the leveldb task a file whose display name matches a kind is
\* processed if and only if the record type requested is in the allowed set of
\* that kind; any other record type, the empty default included, skips it.
AllowedRecordTypes ==
  [log |-> {"blocks", "physical_records", "write_batches", "parsed_internal_key"},
   ldb |-> {"blocks", "records"},
   descriptor |-> {"blocks", "physical_records", "versionedit"}]

C8_RecordTypeGate ==
  (task = "leveldb" /\ pc \in {"loop", "poll", "done"} /\ ConfigGiven) =>
    \A k \in 1..Len(input_files) :
      (input_files[k].display_name \in LevelDBNames
       /\ (k < i \/ (k = i /\ pc = "poll"))) =>
         LET kind == KindOf(input_files[k].display_name)
         IN (\E c \in 1..Len(popen_calls) : popen_calls[c].item = k)
              <=> record_type \in AllowedRecordTypes[kind]

\* a sorted table processed for "records", a descriptor skipped for it
C8_Witness ==
  /\ task = "leveldb"
  /\ record_type = "records"
  /\ Len(input_files) = 2
  /\ input_files[1].display_name = NameLdb
  /\ input_files[2].display_name = NameManifest
  /\ pc = "done"
  /\ LaunchedItems = <<1>>

\* ------------------------------------------------------------------------ C9
\* C9: with no task configuration (None or empty) the task returns SUCCESS
\* with an empty artifact list for any batch, and creates no staging
\* directory, copies nothing, creates no output file and launches no process.
NoConfiguration == task_config.isNone \/ task_config.d = EmptyDict

C9_NoConfigNoOp ==
  NoConfiguration =>
     /\ dirs = {} /\ staged = {} /\ input_files_temp = <<>>
     /\ created = 0
     /\ popen_calls = <<>> /\ process.state = "none"
     /\ output_files = <<>>
     /\ status # "FAILURE"
     /\ pc = "done" => status = "SUCCESS"

C9_Witness ==
  /\ task_config = Dict(EmptyDict)
  /\ Len(input_files) = 2
  /\ pc = "done"
  /\ status = "SUCCESS"
  /\ output_files = <<>>

\* ----------------------------------------------------------------------- C10
\* C10: on a successful return the artifact list holds, for each supported
\* input file in input order, its stdout artifact immediately followed by its
\* stderr artifact, and nothing else; artifacts are appended only once the
\* child has exited, whatever its exit status.
RECURSIVE SortedSeq(_)
SortedSeq(S) ==
  IF S = {} THEN <<>>
  ELSE LET m == CHOOSE x \in S : \A y \in S : x <= y
       IN <<m>> \o SortedSeq(S \ {m})

C10_ArtifactsOnSuccess ==
  (pc = "done" /\ status = "SUCCESS") =>
    LET sup == SortedSeq(SupportedItems)
    IN /\ Len(output_files) = 2 * Len(sup)
       /\ Len(popen_calls) = Len(sup)
       /\ \A n \in 1..Len(sup) :
            /\ popen_calls[n].item = sup[n]
            /\ output_files[2 * n - 1].uuid = popen_calls[n].stdout
            /\ output_files[2 * n].uuid = popen_calls[n].stderr
            /\ output_files[2 * n - 1].source_file_id = input_files[sup[n]].id
            /\ output_files[2 * n].source_file_id = input_files[sup[n]].id
            /\ output_files[2 * n].data_type = "plain/txt"
            /\ output_files[2 * n - 1].data_type # "plain/txt"

C10_Artifacts ==
  /\ []C10_ArtifactsOnSuccess
  /\ [][output_files' # output_files =>
          /\ process.state = "exited"
          /\ Len(output_files') = Len(output_files) + 2]_vars

\* two files processed, the second child ended with a non-zero exit status
C10_Witness ==
  /\ pc = "done"
  /\ status = "SUCCESS"
  /\ Len(output_files) = 4
  /\ process.returncode = 1

\* ----------------------------------------------------------------------- C11
\* C11: in the indexeddb task, for every batch, also one in which two files
\* share a display name, the staged copy given as the source path of a file's
\* command holds the bytes of that same file when the command is launched,
\* and the staged copies of distinct input files have not overwritten one
\* another: every input file still has its own copy in the staging directory.
\* (staged does not change between the end of the staging loop and the removal
\* of the directory, so its value while the directory exists is its value at
\* every launch.)
C11_StagedCopyIsOwnFile ==
  (task = "indexeddb" /\ temp_dir \in dirs /\ popen_calls # <<>>) =>
    /\ \A c \in 1..Len(popen_calls) :
         \E e \in staged :
           /\ ToStr(e[1]) = popen_calls[c].args[4]
           /\ e[2] = input_files[popen_calls[c].item].id
    /\ \A k \in 1..Len(input_files_temp) :
         <<input_files_temp[k].temp_file, input_files_temp[k].input_file.id>> \in staged

====
